---- MODULE Spec2Model ----
(***************************************************************************)
(* A state-machine model of task_bot.py: the TaskBot store (tasks and      *)
(* archived_tasks, in memory and in their two JSON files), the per-user    *)
(* session maps (pending_add_attachments, pending_forwarded_messages,      *)
(* media_groups, context.user_data, context.bot_data) and the handlers     *)
(* that main() registers.                                                  *)
(*                                                                         *)
(* Python values are represented as follows.  A dict is a function whose   *)
(* DOMAIN is its key set.  None is NoMedia for a media_info, NoTime for a  *)
(* timestamp, NoStr for a string and NoId for a message id.  Time is the   *)
(* wall clock in milliseconds, counted from the start of the behaviour; a  *)
(* task id is the clock reading, int(time.time() * 1000).                  *)
(***************************************************************************)
EXTENDS Integers, Sequences, FiniteSets, TLC

VARIABLES
    now,                        \* the wall clock, in milliseconds
    msg_seq,                    \* message_id of the last inbound message
    tasks,                      \* TaskBot.tasks: user -> list of tasks
    archived_tasks,             \* TaskBot.archived_tasks
    tasks_file,                 \* the content of tasks.json
    archived_file,              \* the content of archived_tasks.json
    pc,                         \* <<>>, or <<user, task>> between the two writes of archive_task
    pending_add_attachments,    \* user -> {active, attachments, start_time}
    pending_forwarded_messages, \* user -> {messages, last_time}
    media_groups,               \* media_group_id -> buffer
    bot_data,                   \* context.bot_data: group id -> stash
    user_data,                  \* context.user_data, per user: key -> value
    username_to_id,             \* the users whose handle is known
    last                        \* what the last handler did and answered

vars == <<now, msg_seq, tasks, archived_tasks, tasks_file, archived_file, pc,
          pending_add_attachments, pending_forwarded_messages, media_groups,
          bot_data, user_data, username_to_id, last>>

store_vars == <<tasks, archived_tasks, tasks_file, archived_file>>
session_vars == <<pending_add_attachments, pending_forwarded_messages,
                  media_groups, bot_data, user_data>>

----------------------------------------------------------------------------
(* Bounds of the model *)

\* the clock stops advancing after this many seconds
MaxTime == 40
\* the same, in the specification of the task store
MaxStoreTime == 10
\* inbound content messages (text, forward, media) in one behaviour
MaxMsgs == 3
\* tasks held by all users, live and archived together
MaxTasks == 2
\* inbound forwards in one behaviour of the burst specification
MaxBurst == 11
\* tasks held in the specification of one user's task life
MaxLifeTasks == 1
\* the clock stops after this many seconds in the specification of expiry
MaxExpiryTime == 2700
\* inbound content messages in the specification of two users side by side
MaxSideMsgs == 1
\* the clock stops after this many seconds in the specification of failing sends
MaxSendTime == 60

(* Program constants *)

\* handle_forwarded_message: "time_diff < 30"
ForwardBatchSeconds == 30
\* handle_forwarded_message: "len(messages) >= 10"
ForwardBatchCap == 10
\* cleanup_pending_attachments: "time_diff > 1800"
AttachmentExpirySeconds == 1800
\* cleanup_media_groups: "total_seconds() > 300"
MediaGroupExpirySeconds == 300

Users == {"u1", "u2"}
Texts == {"a", "b"}
\* the steps by which the clock advances, in seconds
SecSteps == {10, 30}
\* the same in the specification of expiry: a quarter of an hour
ExpirySteps == {900}
\* the users whose handle username_mapping.json holds at the start
KnownAtStart == {"u1"}

----------------------------------------------------------------------------
(* Values *)

NoMedia == [type |-> "null"]
NoTime == -1
NoStr == "<None>"
NoId == 0

Photo(f) == [type |-> "photo", file_id |-> f]
Document(f) == [type |-> "document", file_id |-> f, file_name |-> "doc"]
Multiple(items) == [type |-> "multiple", items |-> items]

\* the attachments an inbound message can carry
Attachments == {Photo("p1"), Document("d1")}

Idle == [op |-> "idle", user |-> "", id |-> 0, ok |-> TRUE, reply |-> "",
         ret |-> NoMedia, pre |-> <<>>]

Did(op, u, id, ok, reply) ==
    [op |-> op, user |-> u, id |-> id, ok |-> ok, reply |-> reply,
     ret |-> NoMedia, pre |-> <<>>]

\* d[k] = v, added or overwritten
Put(d, k, v) == [x \in DOMAIN d \cup {k} |-> IF x = k THEN v ELSE d[x]]
\* del d[k] for every k in ks that d has
Drop(d, ks) == [x \in DOMAIN d \ ks |-> d[x]]
\* d.get(k, default)
Get(d, k, default) == IF k \in DOMAIN d THEN d[k] ELSE default

EmptyDict == [x \in {} |-> 0]

\* sep.join(parts)
RECURSIVE Join(_, _)
Join(parts, sep) ==
    IF parts = <<>> THEN ""
    ELSE IF Len(parts) = 1 THEN parts[1]
    ELSE parts[1] \o sep \o Join(Tail(parts), sep)

Range(s) == {s[i] : i \in 1..Len(s)}

----------------------------------------------------------------------------
(* TaskBot *)

\* int(time.time() * 1000)
get_next_task_id == now

get_user_tasks(user_id) == Get(tasks, user_id, <<>>)

\* the new task with completed_at set to the time of creation
NewTaskStamped(task_text, message_link, message_id, media_info) ==
    [id |-> get_next_task_id, text |-> task_text, status |-> "pending",
     created_at |-> now, completed_at |-> now,
     message_link |-> message_link, message_id |-> message_id,
     media_info |-> media_info, previous_text |-> NoStr, archived_at |-> NoTime]

\* the task dict of add_task (previous_text and archived_at are keys that
\* the edit and archive_task add later)
NewTask(task_text, message_link, message_id, media_info) ==
    [id |-> get_next_task_id, text |-> task_text, status |-> "pending",
     created_at |-> now, completed_at |-> NoTime,
     message_link |-> message_link, message_id |-> message_id,
     media_info |-> media_info, previous_text |-> NoStr, archived_at |-> NoTime]

\* add_task that stores no media_info
add_task_unattached(user_id, task_text, message_link, message_id, media_info) ==
    Put(tasks, user_id,
        Append(get_user_tasks(user_id),
               NewTask(task_text, message_link, message_id, NoMedia)))

\* self.tasks after add_task; save_tasks() writes the same value to the file
add_task(user_id, task_text, message_link, message_id, media_info) ==
    Put(tasks, user_id,
        Append(get_user_tasks(user_id),
               NewTask(task_text, message_link, message_id, media_info)))

\* the index of the first task with this id, 0 when there is none
FirstWithId(list, task_id) ==
    IF \E i \in 1..Len(list) : list[i].id = task_id
    THEN CHOOSE i \in 1..Len(list) :
            /\ list[i].id = task_id
            /\ \A j \in 1..(i - 1) : list[j].id # task_id
    ELSE 0

complete_task_found(user_id, task_id) ==
    FirstWithId(get_user_tasks(user_id), task_id) # 0

\* complete_task as a toggle: a completed task goes back to pending
complete_task_toggle(user_id, task_id) ==
    LET i == FirstWithId(get_user_tasks(user_id), task_id)
    IN  IF i = 0 THEN tasks
        ELSE IF tasks[user_id][i].status = "completed"
        THEN [tasks EXCEPT ![user_id][i].status = "pending",
                           ![user_id][i].completed_at = NoTime]
        ELSE [tasks EXCEPT ![user_id][i].status = "completed",
                           ![user_id][i].completed_at = now]

\* complete_task without the assignment of completed_at
complete_task_unstamped(user_id, task_id) ==
    LET i == FirstWithId(get_user_tasks(user_id), task_id)
    IN  IF i = 0 THEN tasks
        ELSE [tasks EXCEPT ![user_id][i].status = "completed"]

\* self.tasks after complete_task: the first task with the id is marked
complete_task(user_id, task_id) ==
    LET i == FirstWithId(get_user_tasks(user_id), task_id)
    IN  IF i = 0 THEN tasks
        ELSE [tasks EXCEPT ![user_id][i].status = "completed",
                           ![user_id][i].completed_at = now]

delete_task_found(user_id, task_id) == user_id \in DOMAIN tasks

\* delete_task that drops the tasks with the id from every user's list
delete_task_everywhere(user_id, task_id) ==
    [v \in DOMAIN tasks |-> SelectSeq(tasks[v], LAMBDA t : t.id # task_id)]

\* self.tasks after delete_task: every task with the id is dropped
delete_task(user_id, task_id) ==
    IF user_id \in DOMAIN tasks
    THEN [tasks EXCEPT ![user_id] = SelectSeq(@, LAMBDA t : t.id # task_id)]
    ELSE tasks

\* archive_task's search: the index of the first completed task with the id
task_to_archive(user_id, task_id) ==
    IF user_id \notin DOMAIN tasks THEN 0
    ELSE LET list == tasks[user_id]
         IN  IF \E i \in 1..Len(list) :
                    list[i].id = task_id /\ list[i].status = "completed"
             THEN CHOOSE i \in 1..Len(list) :
                    /\ list[i].id = task_id /\ list[i].status = "completed"
                    /\ \A j \in 1..(i - 1) :
                          ~(list[j].id = task_id /\ list[j].status = "completed")
             ELSE 0

permanently_delete_archived_task_found(user_id, task_id) ==
    /\ user_id \in DOMAIN archived_tasks
    /\ \E i \in 1..Len(archived_tasks[user_id]) :
          archived_tasks[user_id][i].id = task_id

permanently_delete_archived_task(user_id, task_id) ==
    IF permanently_delete_archived_task_found(user_id, task_id)
    THEN [archived_tasks EXCEPT ![user_id] = SelectSeq(@, LAMBDA t : t.id # task_id)]
    ELSE archived_tasks

----------------------------------------------------------------------------
(* Initial state: TaskBot() with no files on disk, empty session maps *)

Init ==
    /\ now = 0
    /\ msg_seq = 0
    /\ tasks = EmptyDict
    /\ archived_tasks = EmptyDict
    /\ tasks_file = EmptyDict
    /\ archived_file = EmptyDict
    /\ pc = <<>>
    /\ pending_add_attachments = EmptyDict
    /\ pending_forwarded_messages = EmptyDict
    /\ media_groups = EmptyDict
    /\ bot_data = EmptyDict
    /\ user_data = [u \in Users |-> EmptyDict]
    /\ username_to_id = KnownAtStart
    /\ last = Idle

\* the number of tasks a user holds, live and archived
Held(u) == Len(Get(tasks, u, <<>>)) + Len(Get(archived_tasks, u, <<>>))

RECURSIVE Sum(_, _)
Sum(f, S) == IF S = {} THEN 0
             ELSE LET x == CHOOSE y \in S : TRUE IN f[x] + Sum(f, S \ {x})

HeldByAll == Sum([u \in Users |-> Held(u)], Users)

\* the task ids a command can name: those in use, and one that is not
\* (no task has an id later than the clock)
MissingId == now + 1
TaskIds ==
    {MissingId}
    \cup UNION {{t.id : t \in Range(Get(tasks, u, <<>>))} : u \in Users}
    \cup UNION {{t.id : t \in Range(Get(archived_tasks, u, <<>>))} : u \in Users}

----------------------------------------------------------------------------
(* The clock and the process *)

Tick(d, limit) ==
    /\ pc = <<>>
    /\ now + d * 1000 <= limit * 1000
    /\ now' = now + d * 1000
    /\ last' = Idle
    /\ UNCHANGED <<msg_seq, store_vars, pc, session_vars, username_to_id>>

\* The process stops (also between the two writes of archive_task) and
\* starts again: TaskBot.__init__ loads both files, the session maps are new.
Restart ==
    /\ tasks' = tasks_file
    /\ archived_tasks' = archived_file
    /\ pc' = <<>>
    /\ pending_add_attachments' = EmptyDict
    /\ pending_forwarded_messages' = EmptyDict
    /\ media_groups' = EmptyDict
    /\ bot_data' = EmptyDict
    /\ user_data' = [u \in Users |-> EmptyDict]
    /\ last' = Did("restart", "", 0, TRUE, "")
    /\ UNCHANGED <<now, msg_seq, tasks_file, archived_file, username_to_id>>

----------------------------------------------------------------------------
(* Command handlers of the task store *)

\* complete_task_command without the save_tasks() of complete_task
complete_task_command_unsaved(u, task_id) ==
    /\ pc = <<>>
    /\ tasks' = complete_task(u, task_id)
    /\ last' = IF complete_task_found(u, task_id)
               THEN Did("complete", u, task_id, TRUE, "marked as completed")
               ELSE Did("complete", u, task_id, FALSE, "not found")
    /\ UNCHANGED <<now, msg_seq, tasks_file, archived_tasks, archived_file, pc,
                   session_vars, username_to_id>>

\* complete_task_command: TaskBot.complete_task and the answer
complete_task_command(u, task_id) ==
    /\ pc = <<>>
    /\ tasks' = complete_task(u, task_id)
    /\ tasks_file' = IF complete_task_found(u, task_id) THEN tasks' ELSE tasks_file
    /\ last' = IF complete_task_found(u, task_id)
               THEN Did("complete", u, task_id, TRUE, "marked as completed")
               ELSE Did("complete", u, task_id, FALSE, "not found")
    /\ UNCHANGED <<now, msg_seq, archived_tasks, archived_file, pc,
                   session_vars, username_to_id>>

delete_task_command(u, task_id) ==
    /\ pc = <<>>
    /\ tasks' = delete_task(u, task_id)
    /\ tasks_file' = IF delete_task_found(u, task_id) THEN tasks' ELSE tasks_file
    /\ last' = IF delete_task_found(u, task_id)
               THEN Did("delete", u, task_id, TRUE, "deleted successfully")
               ELSE Did("delete", u, task_id, FALSE, "not found")
    /\ UNCHANGED <<now, msg_seq, archived_tasks, archived_file, pc,
                   session_vars, username_to_id>>

\* archive_task up to and including save_tasks(): the search, the early
\* returns, the removal from self.tasks and the write of tasks.json
archive_task_remove(u, task_id) ==
    LET i == task_to_archive(u, task_id)
    IN  /\ pc = <<>>
        /\ IF i = 0
           THEN /\ last' = Did("archive", u, task_id, FALSE, "not found or not completed")
                /\ UNCHANGED <<tasks, tasks_file, pc>>
           ELSE /\ tasks' = [tasks EXCEPT ![u] = SelectSeq(@, LAMBDA t : t.id # task_id)]
                /\ tasks_file' = tasks'
                /\ pc' = <<u, tasks[u][i]>>
                /\ last' = Did("archive_removed", u, task_id, TRUE, "")
        /\ UNCHANGED <<now, msg_seq, archived_tasks, archived_file,
                       session_vars, username_to_id>>

\* the rest of archive_task: the append to self.archived_tasks and the
\* write of archived_tasks.json
archive_task_insert ==
    /\ pc # <<>>
    /\ LET u == pc[1]
           task == [pc[2] EXCEPT !.archived_at = now]
       IN  /\ archived_tasks' = Put(archived_tasks, u,
                                    Append(Get(archived_tasks, u, <<>>), task))
           /\ archived_file' = archived_tasks'
           /\ last' = Did("archive", u, task.id, TRUE, "archived successfully")
    /\ pc' = <<>>
    /\ UNCHANGED <<now, msg_seq, tasks, tasks_file, session_vars, username_to_id>>

----------------------------------------------------------------------------
(* Inbound messages *)

Origins == {"none", "channel"}
NoGroup == NoStr

Message(message_id, text, caption, media, origin, media_group_id) ==
    [message_id |-> message_id, text |-> text, caption |-> caption,
     media |-> media, forward_origin |-> origin, media_group_id |-> media_group_id]

\* filters.TEXT & ~filters.COMMAND: a text, possibly forwarded
TextMessages(message_id) ==
    {Message(message_id, t, NoStr, NoMedia, o, NoGroup) : t \in Texts, o \in Origins}

\* filters.PHOTO, filters.Document.ALL: an attachment, possibly forwarded,
\* possibly one item of a media group
MediaMessages(message_id) ==
    {Message(message_id, NoStr, NoStr, a, o, g) :
        a \in Attachments, o \in Origins, g \in {NoGroup, "G1"}}

is_forwarded_message(message) == message.forward_origin # "none"

has_media(message) == message.media # NoMedia

\* the one-line summary extract_task_from_message appends for an attachment
MediaSummary(media) ==
    IF media.type = "photo" THEN "Photo attached"
    ELSE "Document: " \o media.file_name

\* extract_task_from_message: the content lines joined by a newline, the
\* permalink of a forward from a channel, the message id, the attachment
\* (the debug and source_type entries are only logged)
extract_task_from_message(message) ==
    LET provenance == IF is_forwarded_message(message)
                      THEN <<"From: S", "Date: D">> ELSE <<>>
        body == IF message.text # NoStr THEN <<"T: " \o message.text>>
                ELSE IF message.caption # NoStr THEN <<"C: " \o message.caption>>
                ELSE <<>>
        summary == IF message.media # NoMedia
                   THEN <<MediaSummary(message.media)>> ELSE <<>>
    IN  [content |-> Join(provenance \o body \o summary, "\n"),
         link |-> IF message.forward_origin = "channel"
                  THEN "https://t.me/c/1/1" ELSE NoStr,
         message_id |-> message.message_id,
         media_info |-> message.media]

----------------------------------------------------------------------------
(* PendingAttachmentSession *)

\* the new session record with the active flag not set
NewSessionInactive == [active |-> FALSE, attachments |-> <<>>, start_time |-> now]

\* the record add_task_command and handle_media create
NewSession == [active |-> TRUE, attachments |-> <<>>, start_time |-> now]

IsActive(sessions, u) == u \in DOMAIN sessions /\ sessions[u].active

SessionActive(u) == IsActive(pending_add_attachments, u)

\* process_pending_attachments_ret with the one-attachment case left out:
\* a single attachment comes back wrapped
process_pending_attachments_ret_wrapped(sessions, user_id_str) ==
    IF ~IsActive(sessions, user_id_str) THEN NoMedia
    ELSE LET attachments == sessions[user_id_str].attachments
         IN  IF attachments = <<>> THEN NoMedia
             ELSE Multiple(attachments)

\* what process_pending_attachments returns, sessions being
\* pending_add_attachments
process_pending_attachments_ret(sessions, user_id_str) ==
    IF ~IsActive(sessions, user_id_str) THEN NoMedia
    ELSE LET attachments == sessions[user_id_str].attachments
         IN  IF attachments = <<>> THEN NoMedia
             ELSE IF Len(attachments) = 1 THEN attachments[1]
             ELSE Multiple(attachments)

\* process_pending_attachments without the reset of the empty session
process_pending_attachments_no_reset(sessions, user_id_str) ==
    IF ~IsActive(sessions, user_id_str) THEN sessions
    ELSE IF sessions[user_id_str].attachments = <<>>
    THEN sessions
    ELSE [sessions EXCEPT ![user_id_str].active = FALSE,
                          ![user_id_str].attachments = <<>>]

\* pending_add_attachments after process_pending_attachments
process_pending_attachments(sessions, user_id_str) ==
    IF ~IsActive(sessions, user_id_str) THEN sessions
    ELSE IF sessions[user_id_str].attachments = <<>>
    THEN [sessions EXCEPT ![user_id_str].active = FALSE]
    ELSE [sessions EXCEPT ![user_id_str].active = FALSE,
                          ![user_id_str].attachments = <<>>]

----------------------------------------------------------------------------
(* ForwardBatch *)

Separator == "\n---\n"

\* StoreForwardedDraft with the id of the last message as the reference
StoreForwardedDraftLastId(ud, messages) ==
    LET combined_content == SelectSeq(messages, LAMBDA r : r.content # "")
        with_id == SelectSeq(messages, LAMBDA r : r.message_id # NoId)
        with_media == SelectSeq(messages, LAMBDA r : r.media_info # NoMedia)
        task_content == Join([i \in 1..Len(combined_content) |->
                                 combined_content[i].content], Separator)
        media_infos == [i \in 1..Len(with_media) |-> with_media[i].media_info]
        ud1 == Put(ud, "forwarded_task_content", task_content)
        ud3 == IF with_id # <<>>
               THEN Put(ud1, "forwarded_message_id", with_id[Len(with_id)].message_id)
               ELSE ud1
    IN  IF media_infos # <<>>
        THEN Put(ud3, "forwarded_media_info", Multiple(media_infos)) ELSE ud3

\* context.user_data after process_forwarded_messages_batch stored the draft
\* built from messages: a key is written only when its value is truthy, and
\* the links list stays empty (its append is commented out)
StoreForwardedDraft(ud, messages) ==
    LET combined_content == SelectSeq(messages, LAMBDA r : r.content # "")
        with_id == SelectSeq(messages, LAMBDA r : r.message_id # NoId)
        with_media == SelectSeq(messages, LAMBDA r : r.media_info # NoMedia)
        links == <<>>
        task_content == Join([i \in 1..Len(combined_content) |->
                                 combined_content[i].content], Separator)
        media_infos == [i \in 1..Len(with_media) |-> with_media[i].media_info]
        ud1 == Put(ud, "forwarded_task_content", task_content)
        ud2 == IF links # <<>> THEN Put(ud1, "forwarded_task_link", links[1]) ELSE ud1
        ud3 == IF with_id # <<>>
               THEN Put(ud2, "forwarded_message_id", with_id[1].message_id) ELSE ud2
    IN  IF media_infos # <<>>
        THEN Put(ud3, "forwarded_media_info", Multiple(media_infos)) ELSE ud3

\* is_continuation of handle_forwarded_message
is_continuation(batch) ==
    IF batch.last_time # NoTime
    THEN now - batch.last_time < ForwardBatchSeconds * 1000
    ELSE TRUE

\* should_flush with the size test off by one
should_flush_past_cap(batch, messages) ==
    ~is_continuation(batch) \/ Len(messages) > ForwardBatchCap

\* "if not is_continuation or len(messages) >= 10": batch is the user's
\* record before the arriving record was appended, messages the list after
should_flush(batch, messages) ==
    ~is_continuation(batch) \/ Len(messages) >= ForwardBatchCap

\* handle_forwarded_message, with process_forwarded_messages_batch when the
\* batch is flushed.  sent: whether the transport delivers the prompt; when
\* reply_text raises, the line that clears the batch is not reached.
handle_forwarded_message(u, message, sent) ==
    LET batch == IF u \in DOMAIN pending_forwarded_messages
                 THEN pending_forwarded_messages[u]
                 ELSE [messages |-> <<>>, last_time |-> NoTime]
        task_data == extract_task_from_message(message)
        messages == Append(batch.messages, task_data)
        flush == should_flush(batch, messages)
    IN  /\ pending_forwarded_messages' =
              Put(pending_forwarded_messages, u,
                  [messages |-> IF flush /\ sent THEN <<>> ELSE messages,
                   last_time |-> now])
        /\ user_data' = IF flush
                        THEN [user_data EXCEPT ![u] = StoreForwardedDraft(@, messages)]
                        ELSE user_data
        /\ last' = IF ~flush
                   THEN Did("forward", u, Len(messages), TRUE, "added to batch")
                   ELSE IF sent
                   THEN [Did("forward", u, Len(messages), TRUE, "prompt")
                            EXCEPT !.pre = messages]
                   ELSE [Did("forward", u, Len(messages), FALSE, "raised")
                            EXCEPT !.pre = messages]
        /\ UNCHANGED <<store_vars, pending_add_attachments, media_groups, bot_data>>

----------------------------------------------------------------------------
(* Message handlers *)

CanAdd(u) == HeldByAll < MaxTasks

\* update_username_mapping: every user of the model has a handle
update_username_mapping(u) == username_to_id \cup {u}

\* the edit without the copy of the old description
edit_task_forgetful(u, i, text) ==
    [tasks EXCEPT ![u][i].text = text]

\* task_bot.tasks after the edit branch of handle_text changed the i-th
\* task of the user: "task['previous_text'] = old_text; task['text'] = text"
edit_task(u, i, text) ==
    [tasks EXCEPT ![u][i].previous_text = tasks[u][i].text,
                  ![u][i].text = text]

\* handle_text: the edit target, the media-group description, a forward,
\* and at last the plain-text prompt
handle_text(u, message, sent) ==
    LET ud == user_data[u]
        text == message.text
        editing == "editing_task_id" \in DOMAIN ud
        task_id == Get(ud, "editing_task_id", NoId)
        i == FirstWithId(get_user_tasks(u), task_id)
        media_info == Get(ud, "pending_media_group", NoMedia)
        describing == /\ ~editing
                      /\ Get(ud, "expecting_task_text", FALSE)
                      /\ Get(ud, "media_group_waiting", FALSE)
                      /\ media_info # NoMedia
    IN  /\ pc = <<>>
        /\ message.message_id = msg_seq + 1
        /\ msg_seq' = msg_seq + 1
        /\ username_to_id' = update_username_mapping(u)
        /\ describing => CanAdd(u)
        /\ IF editing
           THEN /\ user_data' = [user_data EXCEPT ![u] = Drop(@, {"editing_task_id"})]
                /\ tasks' = IF i = 0 THEN tasks ELSE edit_task(u, i, text)
                /\ tasks_file' = IF i = 0 THEN tasks_file ELSE tasks'
                /\ last' = [(IF i = 0 THEN Did("edit_text", u, task_id, FALSE, "not found")
                              ELSE Did("edit_text", u, task_id, TRUE, "updated"))
                               EXCEPT !.pre = <<text>>]
                /\ UNCHANGED <<archived_tasks, archived_file, pending_add_attachments,
                               pending_forwarded_messages, media_groups, bot_data>>
           ELSE IF describing
           THEN /\ tasks' = add_task(u, text, NoStr, NoId, media_info)
                /\ tasks_file' = tasks'
                /\ user_data' = [user_data EXCEPT ![u] =
                                    Drop(@, {"expecting_task_text", "media_group_waiting",
                                             "pending_media_group"})]
                /\ last' = Did("describe_group", u, now, TRUE, "added")
                /\ UNCHANGED <<archived_tasks, archived_file, pending_add_attachments,
                               pending_forwarded_messages, media_groups, bot_data>>
           ELSE IF is_forwarded_message(message)
           THEN handle_forwarded_message(u, message, sent)
           ELSE /\ user_data' = [user_data EXCEPT ![u] = Put(@, "text_task_content", text)]
                /\ last' = Did("text", u, 0, TRUE, "prompt")
                /\ UNCHANGED <<store_vars, pending_add_attachments,
                               pending_forwarded_messages, media_groups, bot_data>>
        /\ UNCHANGED <<now, pc>>

\* handle_media: the attachment goes to the user's pending attachments; a
\* record is created when the user has none; media_group_id is only logged
handle_media(u, message) ==
    LET task_data == extract_task_from_message(message)
        session == IF u \in DOMAIN pending_add_attachments
                   THEN pending_add_attachments[u] ELSE NewSession
    IN  /\ pc = <<>>
        /\ message.message_id = msg_seq + 1
        /\ msg_seq' = msg_seq + 1
        /\ pending_add_attachments' =
              Put(pending_add_attachments, u,
                  [session EXCEPT !.attachments = Append(@, task_data.media_info),
                                  !.start_time = now])
        /\ last' = [Did("media", u, Len(session.attachments) + 1, TRUE, "attachment added")
                        EXCEPT !.pre = <<message.media_group_id, SessionActive(u),
                                         is_forwarded_message(message)>>]
        /\ UNCHANGED <<now, store_vars, pc, pending_forwarded_messages, media_groups,
                       bot_data, user_data, username_to_id>>

----------------------------------------------------------------------------
(* Commands *)

NoMessage == Message(NoId, NoStr, NoStr, NoMedia, "none", NoGroup)

\* add_task_command.  args: the text after /add, NoStr when there is none;
\* reply_to: the message the command replies to, NoMessage when none.
add_task_command(u, args, reply_to) ==
    LET task_data == extract_task_from_message(reply_to)
        on_media == reply_to # NoMessage /\ has_media(reply_to)
        collected == process_pending_attachments_ret(pending_add_attachments, u)
        adds == on_media \/ args # NoStr
    IN  /\ pc = <<>>
        /\ adds => CanAdd(u)
        /\ IF on_media
           THEN /\ tasks' = add_task(u,
                               IF args # NoStr THEN args
                               ELSE IF task_data.content # "" THEN task_data.content
                               ELSE "Task from media",
                               NoStr, task_data.message_id, task_data.media_info)
                /\ last' = Did("add_reply", u, now, TRUE, "added")
                /\ UNCHANGED pending_add_attachments
           ELSE IF args # NoStr /\ SessionActive(u)
           THEN /\ tasks' = add_task(u, args, NoStr, NoId, collected)
                /\ pending_add_attachments' = process_pending_attachments(pending_add_attachments, u)
                /\ last' = [Did("add_collected", u, now, TRUE, "added with attachments")
                               EXCEPT !.ret = collected,
                                      !.pre = pending_add_attachments[u].attachments]
           ELSE IF args # NoStr
           THEN /\ tasks' = add_task(u, args, NoStr, NoId, NoMedia)
                /\ last' = [Did("add", u, now, TRUE, "added") EXCEPT !.pre = <<args>>]
                /\ UNCHANGED pending_add_attachments
           ELSE IF SessionActive(u)
           THEN /\ last' = Did("add_status", u, 0, TRUE, "collecting")
                /\ UNCHANGED <<tasks, pending_add_attachments>>
           ELSE /\ pending_add_attachments' = Put(pending_add_attachments, u, NewSession)
                /\ last' = Did("add_start", u, 0, TRUE, "send attachments")
                /\ UNCHANGED tasks
        /\ tasks_file' = IF adds THEN tasks' ELSE tasks_file
        /\ UNCHANGED <<now, msg_seq, archived_tasks, archived_file, pc,
                       pending_forwarded_messages, media_groups, bot_data,
                       user_data, username_to_id>>

\* save_batch_command: the forward batch and the collected attachments become
\* one task; the attachments are read whether or not the session is active
save_batch_command(u) ==
    LET forwarded_messages ==
            IF u \in DOMAIN pending_forwarded_messages
            THEN pending_forwarded_messages[u].messages ELSE <<>>
        attachments ==
            IF u \in DOMAIN pending_add_attachments
            THEN pending_add_attachments[u].attachments ELSE <<>>
        with_content == SelectSeq(forwarded_messages, LAMBDA r : r.content # "")
        with_media == SelectSeq(forwarded_messages, LAMBDA r : r.media_info # NoMedia)
        combined_content == [i \in 1..Len(with_content) |-> with_content[i].content]
        media_infos ==
            [i \in 1..Len(with_media) |-> with_media[i].media_info]
            \o (IF attachments = <<>> THEN <<>>
                ELSE IF Len(attachments) = 1 THEN <<attachments[1]>>
                ELSE <<Multiple(attachments)>>)
        task_text == IF combined_content # <<>>
                     THEN Join(combined_content, Separator) ELSE "Task from batch"
        combined_media_info ==
            IF media_infos # <<>> THEN Multiple(media_infos) ELSE NoMedia
        nothing == forwarded_messages = <<>> /\ attachments = <<>>
    IN  /\ pc = <<>>
        /\ ~nothing => CanAdd(u)
        /\ IF nothing
           THEN /\ last' = Did("save", u, 0, FALSE, "no pending batches")
                /\ UNCHANGED <<tasks, tasks_file, pending_forwarded_messages,
                               pending_add_attachments>>
           ELSE /\ pending_forwarded_messages' =
                      IF forwarded_messages # <<>>
                      THEN [pending_forwarded_messages EXCEPT ![u].messages = <<>>]
                      ELSE pending_forwarded_messages
                /\ pending_add_attachments' =
                      IF attachments # <<>>
                      THEN [pending_add_attachments EXCEPT ![u].attachments = <<>>,
                                                           ![u].active = FALSE]
                      ELSE pending_add_attachments
                /\ tasks' = add_task(u, task_text, NoStr, NoId, combined_media_info)
                /\ tasks_file' = tasks'
                /\ last' = Did("save", u, now, TRUE, "batch saved")
        /\ UNCHANGED <<now, msg_seq, archived_tasks, archived_file, pc, media_groups,
                       bot_data, user_data, username_to_id>>

\* add_task_for_user: the target must be a user whose handle is known
add_task_for_user(sender, target_username, task_text) ==
    LET known == target_username \in username_to_id
    IN  /\ pc = <<>>
        /\ known => CanAdd(target_username)
        /\ tasks' = IF known
                    THEN add_task(target_username,
                                  "From: " \o sender \o " | " \o task_text,
                                  NoStr, NoId, NoMedia)
                    ELSE tasks
        /\ tasks_file' = IF known THEN tasks' ELSE tasks_file
        /\ last' = [(IF known THEN Did("addfor", sender, now, TRUE, "added for")
                     ELSE Did("addfor", sender, 0, FALSE, "user not found"))
                       EXCEPT !.pre = <<target_username>>]
        /\ UNCHANGED <<now, msg_seq, archived_tasks, archived_file, pc, session_vars,
                       username_to_id>>

----------------------------------------------------------------------------
(* Inline buttons *)

ButtonData == {"add_forwarded_task", "add_text_task", "add_media_task",
               "add_task_with_attachments", "add_media_group_G1", "cancel",
               "edit_", "perm_delete_", "list_tasks"}

\* the keys of the forwarded draft without the one that holds its text
ForwardedKeysButContent == {"forwarded_task_link", "forwarded_message_id",
                            "forwarded_media_info"}

\* the keys the forwarded accept branch deletes
ForwardedKeys == {"forwarded_task_content", "forwarded_task_link",
                  "forwarded_message_id", "forwarded_media_info"}
MediaTaskKeys == {"media_task_content", "media_task_message_id",
                  "media_task_media_info"}
AttachmentTaskKeys == {"attachment_task_text", "attachment_media_info"}
\* the keys the cancel branch deletes
CancelKeys == {"forwarded_task_content", "regular_task_content", "media_task_content"}

\* the test of the forwarded accept branch, true for the cancel button too
is_accept_forwarded_or_cancel(data) == data \in {"add_forwarded_task", "cancel"}

\* 'if data == "add_forwarded_task"'
is_accept_forwarded(data) == data = "add_forwarded_task"

\* Whether this press of button_callback calls add_task
ButtonAdds(u, data) ==
    \/ is_accept_forwarded(data) /\ "forwarded_task_content" \in DOMAIN user_data[u]
    \/ data = "add_media_task" /\ "media_task_content" \in DOMAIN user_data[u]
    \/ data = "add_task_with_attachments" /\ "attachment_task_text" \in DOMAIN user_data[u]

\* button_callback, for the callback data the keyboards of this file carry
\* and whose branch writes state, and for the refresh of the list.  task_id:
\* the number after edit_ or perm_delete_.  sent: whether
\* query.edit_message_text returns; only the list branches catch the
\* BadRequest "message is not modified" and answer the query instead.
button_callback(u, data, task_id, sent) ==
    LET ud == user_data[u]
        stash == "G1" \in DOMAIN bot_data
        found == FirstWithId(get_user_tasks(u), task_id) # 0
        collected == process_pending_attachments_ret(pending_add_attachments, u)
    IN  /\ pc = <<>>
        /\ data \in ButtonData
        /\ ButtonAdds(u, data) => CanAdd(u)
        /\ tasks' =
              IF ~ButtonAdds(u, data) THEN tasks
              ELSE IF is_accept_forwarded(data)
              THEN add_task(u, ud["forwarded_task_content"],
                            Get(ud, "forwarded_task_link", NoStr),
                            Get(ud, "forwarded_message_id", NoId),
                            Get(ud, "forwarded_media_info", NoMedia))
              ELSE IF data = "add_media_task"
              THEN add_task(u, ud["media_task_content"], NoStr,
                            Get(ud, "media_task_message_id", NoId),
                            Get(ud, "media_task_media_info", NoMedia))
              ELSE add_task(u, ud["attachment_task_text"], NoStr, NoId,
                            Get(ud, "attachment_media_info", NoMedia))
        /\ tasks_file' = IF ButtonAdds(u, data) THEN tasks' ELSE tasks_file
        /\ pending_add_attachments' =
              IF is_accept_forwarded(data) /\ ButtonAdds(u, data)
              THEN process_pending_attachments(pending_add_attachments, u)
              ELSE pending_add_attachments
        /\ user_data' =
              [user_data EXCEPT ![u] =
                  IF data = "add_media_group_G1" /\ stash
                  THEN IF sent
                       THEN Put(Put(Put(ud, "pending_media_group", bot_data["G1"].media_info),
                                    "expecting_task_text", TRUE),
                                "media_group_waiting", TRUE)
                       ELSE Put(ud, "pending_media_group", bot_data["G1"].media_info)
                  ELSE IF is_accept_forwarded(data) /\ ButtonAdds(u, data)
                  THEN Drop(ud, ForwardedKeys)
                  ELSE IF data = "add_media_task" /\ ButtonAdds(u, data) /\ sent
                  THEN Drop(ud, MediaTaskKeys)
                  ELSE IF /\ data = "add_task_with_attachments" /\ ButtonAdds(u, data)
                          /\ sent /\ Get(ud, "attachment_media_info", NoMedia) # NoMedia
                  THEN Drop(ud, AttachmentTaskKeys)
                  ELSE IF data = "cancel" /\ sent
                  THEN Drop(ud, CancelKeys)
                  ELSE IF data = "edit_" /\ found
                  THEN Put(ud, "editing_task_id", task_id)
                  ELSE ud]
        /\ last' =
              IF is_accept_forwarded(data) /\ ButtonAdds(u, data)
              THEN [Did(data, u, now, sent, "added")
                       EXCEPT !.ret = collected,
                              !.pre = IF u \in DOMAIN pending_add_attachments
                                      THEN pending_add_attachments[u].attachments
                                      ELSE <<>>]
              ELSE IF ButtonAdds(u, data) THEN Did(data, u, now, sent, "added")
              ELSE IF is_accept_forwarded(data) \/ data = "add_media_task"
              THEN Did(data, u, 0, sent, "content not found")
              ELSE IF data = "cancel"
              THEN [Did(data, u, 0, sent, "cancelled") EXCEPT !.pre = <<last.op = "cancel" /\ last.user = u /\ last.ok>>]
              ELSE IF data = "edit_"
              THEN Did(data, u, task_id, sent, IF found THEN "send new text" ELSE "not found")
              ELSE IF data = "perm_delete_" THEN Did(data, u, task_id, FALSE, "raised")
              ELSE IF data = "add_media_group_G1" /\ stash
              THEN Did(data, u, 0, sent, "enter description")
              ELSE IF data = "list_tasks"
              THEN Did(data, u, 0, TRUE, IF sent THEN "list" ELSE "already up to date")
              ELSE Did(data, u, 0, TRUE, "")
        /\ UNCHANGED <<now, msg_seq, archived_tasks, archived_file, pc,
                       pending_forwarded_messages, media_groups, bot_data,
                       username_to_id>>

----------------------------------------------------------------------------
(* The two repeating jobs of main() *)

\* cleanup_pending_attachments with "time_diff >= 1800"
cleanup_pending_attachments_at_limit ==
    /\ pc = <<>>
    /\ pending_add_attachments' =
          [u \in DOMAIN pending_add_attachments |->
              IF /\ pending_add_attachments[u].active
                 /\ now - pending_add_attachments[u].start_time
                        >= AttachmentExpirySeconds * 1000
              THEN [pending_add_attachments[u] EXCEPT !.active = FALSE,
                                                      !.attachments = <<>>]
              ELSE pending_add_attachments[u]]
    /\ last' = Did("cleanup_pending_attachments", "", 0, TRUE, "")
    /\ UNCHANGED <<now, msg_seq, store_vars, pc, pending_forwarded_messages,
                   media_groups, bot_data, user_data, username_to_id>>

\* cleanup_pending_attachments
cleanup_pending_attachments ==
    /\ pc = <<>>
    /\ pending_add_attachments' =
          [u \in DOMAIN pending_add_attachments |->
              IF /\ pending_add_attachments[u].active
                 /\ now - pending_add_attachments[u].start_time
                        > AttachmentExpirySeconds * 1000
              THEN [pending_add_attachments[u] EXCEPT !.active = FALSE,
                                                      !.attachments = <<>>]
              ELSE pending_add_attachments[u]]
    /\ last' = Did("cleanup_pending_attachments", "", 0, TRUE, "")
    /\ UNCHANGED <<now, msg_seq, store_vars, pc, pending_forwarded_messages,
                   media_groups, bot_data, user_data, username_to_id>>

\* cleanup_media_groups: a stash without a timestamp counts as datetime.min
cleanup_media_groups ==
    /\ pc = <<>>
    /\ media_groups' =
          [g \in {k \in DOMAIN media_groups :
                    now - media_groups[k].timestamp <= MediaGroupExpirySeconds * 1000}
              |-> media_groups[g]]
    /\ bot_data' =
          [g \in {k \in DOMAIN bot_data :
                    /\ bot_data[k].timestamp # NoTime
                    /\ now - bot_data[k].timestamp <= MediaGroupExpirySeconds * 1000}
              |-> bot_data[g]]
    /\ last' = Did("cleanup_media_groups", "", 0, TRUE, "")
    /\ UNCHANGED <<now, msg_seq, store_vars, pc, pending_add_attachments,
                   pending_forwarded_messages, user_data, username_to_id>>

----------------------------------------------------------------------------
(* Specifications *)

\* the texts a command carries
Args == Texts \cup {NoStr}

\* the message an /add replies to: none, or an earlier photo with a caption
ReplyTargets ==
    {NoMessage} \cup {Message(i, NoStr, "c", Photo("p1"), "none", NoGroup) :
                        i \in 1..(IF msg_seq > 0 THEN 1 ELSE 0)}

\* the buttons that carry a task id, and the ids they can carry
ButtonIds(data) == IF data \in {"edit_", "perm_delete_"} THEN TaskIds ELSE {MissingId}

\* The task store: the commands (and the buttons that call the same TaskBot
\* methods), the clock and a restart of the process
StoreNext ==
    \/ Tick(10, MaxStoreTime)
    \/ Restart
    \/ \E u \in Users : add_task_command(u, "a", NoMessage)
    \/ \E u, v \in Users : add_task_for_user(u, v, "a")
    \/ \E u \in Users, id \in TaskIds : complete_task_command(u, id)
    \/ \E u \in Users, id \in TaskIds : delete_task_command(u, id)
    \/ \E u \in Users, id \in TaskIds : archive_task_remove(u, id)
    \/ archive_task_insert

SpecStore == Init /\ [][StoreNext]_vars

\* The user whose sessions the specifications below follow
Actor == "u1"

\* Attachment collection: media messages, /add, /save and the expiry job
AttachNext ==
    \/ Tick(10, MaxStoreTime)
    \/ \E m \in MediaMessages(msg_seq + 1) :
          msg_seq < MaxMsgs /\ handle_media(Actor, m)
    \/ \E args \in {"a", NoStr} : add_task_command(Actor, args, NoMessage)
    \/ save_batch_command(Actor)
    \/ cleanup_pending_attachments

SpecAttach == Init /\ [][AttachNext]_vars

\* Text messages, plain and forwarded, the buttons of their prompts, /save
ForwardNext ==
    \/ \E d \in SecSteps : Tick(d, MaxTime)
    \/ \E m \in TextMessages(msg_seq + 1) :
          msg_seq < MaxMsgs /\ handle_text(Actor, m, TRUE)
    \/ \E data \in {"add_forwarded_task", "add_text_task", "cancel"} :
          button_callback(Actor, data, MissingId, TRUE)
    \/ save_batch_command(Actor)

SpecForward == Init /\ [][ForwardNext]_vars

\* The same with the two repeating jobs of main(); the job queue runs them
\* again and again and the clock advances, whatever the users do
FairNext ==
    \/ ForwardNext
    \/ cleanup_pending_attachments
    \/ cleanup_media_groups

FairForward ==
    /\ Init /\ [][FairNext]_vars
    /\ WF_vars(\E d \in SecSteps : Tick(d, MaxTime))
    /\ WF_vars(cleanup_pending_attachments)
    /\ WF_vars(cleanup_media_groups)

\* A burst of forwards of one text from one channel
BurstNext ==
    \/ Tick(10, MaxTime)
    \/ msg_seq < MaxBurst
       /\ handle_text(Actor, Message(msg_seq + 1, "a", NoStr, NoMedia, "channel", NoGroup), TRUE)

SpecBurst == Init /\ [][BurstNext]_vars

\* Media messages of one user with the clock and the two repeating jobs;
\* nothing else of main() runs without an update from a user
MediaNext ==
    \/ Tick(10, MaxStoreTime)
    \/ \E m \in MediaMessages(msg_seq + 1) :
          msg_seq < MaxMsgs /\ handle_media(Actor, m)
    \/ cleanup_pending_attachments
    \/ cleanup_media_groups

FairMedia ==
    /\ Init /\ [][MediaNext]_vars
    /\ WF_vars(Tick(10, MaxStoreTime))
    /\ WF_vars(cleanup_pending_attachments)
    /\ WF_vars(cleanup_media_groups)

\* The life of one user's tasks: add, edit (the button, then the text),
\* complete, delete, archive, with the clock and a restart of the process
LifeNext ==
    \/ Tick(10, MaxStoreTime)
    \/ Restart
    \/ \E t \in Texts :
          HeldByAll < MaxLifeTasks /\ add_task_command(Actor, t, NoMessage)
    \/ \E id \in TaskIds : button_callback(Actor, "edit_", id, TRUE)
    \/ /\ msg_seq < MaxMsgs
       /\ handle_text(Actor, Message(msg_seq + 1, "b", NoStr, NoMedia, "none", NoGroup), TRUE)
    \/ \E id \in TaskIds : complete_task_command(Actor, id)
    \/ \E id \in TaskIds : delete_task_command(Actor, id)
    \/ \E id \in TaskIds : archive_task_remove(Actor, id)
    \/ archive_task_insert

SpecLife == Init /\ [][LifeNext]_vars

\* The edit of a task's text: the edit button, then a text message, plain
\* or forwarded, with adds and deletes of the user's tasks and the clock
EditNext ==
    \/ Tick(10, MaxStoreTime)
    \/ add_task_command(Actor, "a", NoMessage)
    \/ \E id \in TaskIds : button_callback(Actor, "edit_", id, TRUE)
    \/ \E m \in TextMessages(msg_seq + 1) :
          msg_seq < MaxMsgs /\ handle_text(Actor, m, TRUE)
    \/ \E id \in TaskIds : delete_task_command(Actor, id)

SpecEdit == Init /\ [][EditNext]_vars

\* The expiry of attachment sessions: photos of two users, /add without a
\* text and, by one user, with a text, a clock that runs past the 30
\* minutes, and the sweep
ExpiryNext ==
    \/ \E d \in ExpirySteps : Tick(d, MaxExpiryTime)
    \/ \E u \in Users :
          /\ msg_seq < MaxMsgs
          /\ handle_media(u, Message(msg_seq + 1, NoStr, NoStr, Photo("p1"), "none", NoGroup))
    \/ \E u \in Users : add_task_command(u, NoStr, NoMessage)
    \/ HeldByAll < MaxLifeTasks /\ add_task_command(Actor, "a", NoMessage)
    \/ cleanup_pending_attachments

SpecExpiry == Init /\ [][ExpiryNext]_vars

\* the text a press of a button edits its message to, when that text is the
\* same at every press; NoStr when the branch edits no message or the text
\* names a new task
EditText(u, data) ==
    IF data = "cancel" THEN "cancelled"
    ELSE IF data = "list_tasks" THEN "list"
    ELSE IF (is_accept_forwarded(data) \/ data = "add_media_task") /\ ~ButtonAdds(u, data)
    THEN "content not found"
    ELSE NoStr

\* What query.edit_message_text can do at a press: it returns, or, when the
\* press repeats the press the last handler served (a double tap on one
\* message) and asks for the text the message already shows, Telegram
\* answers "message is not modified" and the call raises BadRequest
EditOutcomes(u, data) ==
    {TRUE} \cup
    (IF /\ last.op = data /\ last.user = u /\ last.ok
        /\ EditText(u, data) # NoStr
        /\ last.reply \in {EditText(u, data), "already up to date"}
     THEN {FALSE} ELSE {})

\* the buttons of the prompts and of the list
TransportButtons == {"add_forwarded_task", "cancel", "list_tasks"}

\* Text messages and the buttons of their prompts and of the list, with the
\* outcomes of the edit of the message
TransportNext ==
    \/ \E d \in SecSteps : Tick(d, MaxTime)
    \/ \E m \in TextMessages(msg_seq + 1) :
          msg_seq < MaxMsgs /\ handle_text(Actor, m, TRUE)
    \/ \E data \in TransportButtons : \E sent \in EditOutcomes(Actor, data) :
          button_callback(Actor, data, MissingId, sent)

SpecTransport == Init /\ [][TransportNext]_vars

\* Forwards and their prompt next to a session of attachments: text
\* messages, media messages, /add without a text, the accept button
AcceptNext ==
    \/ \E d \in SecSteps : Tick(d, MaxTime)
    \/ \E m \in TextMessages(msg_seq + 1) :
          msg_seq < MaxMsgs /\ handle_text(Actor, m, TRUE)
    \/ \E a \in Attachments :
          /\ msg_seq < MaxMsgs
          /\ handle_media(Actor, Message(msg_seq + 1, NoStr, NoStr, a, "none", NoGroup))
    \/ add_task_command(Actor, NoStr, NoMessage)
    \/ button_callback(Actor, "add_forwarded_task", MissingId, TRUE)

SpecAccept == Init /\ [][AcceptNext]_vars

\* the user who stands by while Actor works
Bystander == "u2"

\* Actor holds a task, a session, a batch or a draft
ActorStarted ==
    \/ Actor \in DOMAIN tasks \cup DOMAIN archived_tasks
    \/ Actor \in DOMAIN pending_add_attachments \cup DOMAIN pending_forwarded_messages
    \/ user_data[Actor] # EmptyDict

\* Two users side by side: the bystander sends a text or a photo or adds a
\* task before Actor starts, then Actor sends messages, uses /add, /save,
\* /addfor and /delete and presses the buttons (the other commands of the
\* task store are in StoreNext, for both users); one text, one photo, and a
\* step of the clock while a forward of Actor waits in its batch
SideBySideNext ==
    \/ /\ Actor \in DOMAIN pending_forwarded_messages
       /\ pending_forwarded_messages[Actor].messages # <<>>
       /\ Tick(30, MaxTime)
    \/ \E u \in Users, o \in Origins :
          /\ msg_seq < MaxSideMsgs
          /\ u = Bystander => ~ActorStarted
          /\ handle_text(u, Message(msg_seq + 1, "a", NoStr, NoMedia, o, NoGroup), TRUE)
    \/ \E u \in Users :
          /\ msg_seq < MaxSideMsgs
          /\ u = Bystander => ~ActorStarted
          /\ handle_media(u, Message(msg_seq + 1, NoStr, NoStr, Photo("p1"), "none", NoGroup))
    \/ \E u \in Users :
          /\ HeldByAll < MaxLifeTasks
          /\ u = Bystander => ~ActorStarted
          /\ add_task_command(u, "a", NoMessage)
    \/ add_task_command(Actor, NoStr, NoMessage)
    \/ HeldByAll < MaxLifeTasks /\ save_batch_command(Actor)
    \/ \E v \in Users : HeldByAll < MaxLifeTasks /\ add_task_for_user(Actor, v, "a")
    \/ \E id \in TaskIds : delete_task_command(Actor, id)
    \/ \E data \in {"add_forwarded_task", "cancel", "edit_"} :
          \E id \in ButtonIds(data) :
             /\ ButtonAdds(Actor, data) => HeldByAll < MaxLifeTasks
             /\ button_callback(Actor, data, id, TRUE)

SpecSideBySide == Init /\ [][SideBySideNext]_vars

\* What update.message.reply_text can do when a flush sends its prompt: it
\* returns, or it raises (a transport error).  A send is let fail only while
\* an earlier draft of the user is stored, that is, while a prompt with the
\* accept button has been delivered and not yet answered.
SendOutcomes(u) ==
    {TRUE} \cup (IF "forwarded_task_content" \in DOMAIN user_data[u]
                 THEN {FALSE} ELSE {})

\* the text of the k-th forward: every forward has a text of its own
RECURSIVE Stamp(_)
Stamp(k) == IF k = 0 THEN "" ELSE "a" \o Stamp(k - 1)

ForwardNo(k) == Message(k, Stamp(k), NoStr, NoMedia, "channel", NoGroup)

\* Forwards of one user whose prompt may fail to be sent, the buttons of the
\* prompt and /save
SendFailNext ==
    \/ Tick(30, MaxSendTime)
    \/ \E sent \in SendOutcomes(Actor) :
          msg_seq < MaxMsgs /\ handle_text(Actor, ForwardNo(msg_seq + 1), sent)
    \/ \E data \in {"add_forwarded_task", "cancel"} :
          button_callback(Actor, data, MissingId, TRUE)
    \/ save_batch_command(Actor)

SpecSendFail == Init /\ [][SendFailNext]_vars

\* The archive and the button of the archived-task view: tasks are added,
\* completed and archived, and the button "Delete Permanently" is pressed
\* with the id of an archived task or with an id the archive does not hold
ArchiveViewNext ==
    \/ Tick(10, MaxStoreTime)
    \/ HeldByAll < MaxTasks /\ add_task_command(Actor, "a", NoMessage)
    \/ \E id \in TaskIds : complete_task_command(Actor, id)
    \/ \E id \in TaskIds : archive_task_remove(Actor, id)
    \/ archive_task_insert
    \/ \E id \in ButtonIds("perm_delete_") :
          button_callback(Actor, "perm_delete_", id, TRUE)

SpecArchiveView == Init /\ [][ArchiveViewNext]_vars

\* Everything together
Next ==
    \/ \E d \in SecSteps : Tick(d, MaxTime)
    \/ Restart
    \/ \E u \in Users, id \in TaskIds : complete_task_command(u, id)
    \/ \E u \in Users, id \in TaskIds : delete_task_command(u, id)
    \/ \E u \in Users, id \in TaskIds : archive_task_remove(u, id)
    \/ archive_task_insert
    \/ \E u \in Users : \E m \in TextMessages(msg_seq + 1) :
          msg_seq < MaxMsgs /\ handle_text(u, m, TRUE)
    \/ \E u \in Users : \E m \in MediaMessages(msg_seq + 1) :
          msg_seq < MaxMsgs /\ handle_media(u, m)
    \/ \E u \in Users, args \in Args, r \in ReplyTargets : add_task_command(u, args, r)
    \/ \E u \in Users : save_batch_command(u)
    \/ \E u, v \in Users, t \in Texts : add_task_for_user(u, v, t)
    \/ \E u \in Users, data \in ButtonData : \E id \in ButtonIds(data) :
          button_callback(u, data, id, TRUE)
    \/ cleanup_pending_attachments
    \/ cleanup_media_groups

Spec == Init /\ [][Next]_vars

----------------------------------------------------------------------------
(* Properties of the task store, under SpecStore *)

Ids(list) == {list[i].id : i \in 1..Len(list)}
Live(store, u) == Ids(Get(store, u, <<>>))

\* no task id is in the live set and in the archived set of one user
NeverBoth ==
    \A u \in Users :
        /\ Live(tasks, u) \cap Live(archived_tasks, u) = {}
        /\ Live(tasks_file, u) \cap Live(archived_file, u) = {}

\* a task leaves the union of the live and the archived set only by a delete
NeverNeither ==
    \A u \in Users :
        /\ \A id \in Live(tasks, u) \cup Live(archived_tasks, u) :
              \/ id \in Live(tasks', u) \cup Live(archived_tasks', u)
              \/ last'.op = "delete" /\ last'.user = u /\ last'.id = id
        /\ \A id \in Live(tasks_file, u) \cup Live(archived_file, u) :
              \/ id \in Live(tasks_file', u) \cup Live(archived_file', u)
              \/ last'.op = "delete" /\ last'.user = u /\ last'.id = id

\* C1: at every observation point, in memory and in the two files, also
\* between the two writes of archive_task, a task that was added and not
\* deleted is in exactly one of the live set and the archived set.
C1_ExactlyOneSet == [](NeverBoth) /\ [][NeverNeither]_vars

\* C4: the tasks of a user's live and archived sets have pairwise distinct
\* ids (the claim goes on: and the id of a deleted task is not assigned again).
C4_DistinctIds ==
    \A u \in Users :
        LET all == Get(tasks, u, <<>>) \o Get(archived_tasks, u, <<>>)
        IN  \A i, j \in 1..Len(all) : i # j => all[i].id # all[j].id

\* the user's live list holds a pending task with this id
HasPending(u, id) ==
    \E i \in 1..Len(Get(tasks, u, <<>>)) :
        tasks[u][i].id = id /\ tasks[u][i].status = "pending"

\* C8: archive on a task whose status is pending returns failure and leaves
\* the live and the archived collection, in memory and on disk, unchanged.
C8_ArchivePendingFails ==
    [][\A u \in Users :
          (/\ pc = <<>>
           /\ last'.op \in {"archive", "archive_removed"}
           /\ last'.user = u
           /\ HasPending(u, last'.id))
          => (last'.op = "archive" /\ ~last'.ok /\ UNCHANGED store_vars)]_vars

----------------------------------------------------------------------------
(* Properties of the forward batch, under SpecForward, FairForward, SpecBurst *)

BatchOf(u) == IF u \in DOMAIN pending_forwarded_messages
              THEN pending_forwarded_messages[u].messages ELSE <<>>

\* the 30 s since the user's last forward have passed
IdleTimeoutElapsed(u) ==
    /\ u \in DOMAIN pending_forwarded_messages
    /\ pending_forwarded_messages[u].last_time # NoTime
    /\ now - pending_forwarded_messages[u].last_time >= ForwardBatchSeconds * 1000

\* C2: a forward that arrives 30 s or more after the previous one, the batch
\* holding records, flushes only those records into the draft and becomes
\* the sole entry of the new batch.
C2_TriggerSeedsNewBatch ==
    [][\A u \in Users :
          (/\ last'.op = "forward" /\ last'.user = u
           /\ BatchOf(u) # <<>>
           /\ IdleTimeoutElapsed(u))
          => (/\ user_data'[u] = StoreForwardedDraft(user_data[u], BatchOf(u))
              /\ Len(pending_forwarded_messages'[u].messages) = 1
              /\ pending_forwarded_messages'[u].messages[1].message_id = msg_seq')]_vars

\* C3: accepting the prompt of a plain text message adds one pending task
\* with that text to the user's list and clears the stored draft.
C3_AcceptTextAddsTask ==
    [][\A u \in Users :
          (/\ last'.op = "add_text_task" /\ last'.user = u
           /\ "text_task_content" \in DOMAIN user_data[u])
          => (/\ Len(Get(tasks', u, <<>>)) = Len(Get(tasks, u, <<>>)) + 1
              /\ tasks'[u][Len(tasks'[u])].text = user_data[u]["text_task_content"]
              /\ tasks'[u][Len(tasks'[u])].status = "pending"
              /\ "text_task_content" \notin DOMAIN user_data'[u])]_vars

\* C5: a batch that holds records is flushed once the 30 s idle timeout has
\* elapsed, with no further message from the user.
C5_IdleBatchFlushes ==
    \A u \in Users :
        (BatchOf(u) # <<>> /\ IdleTimeoutElapsed(u)) ~> (BatchOf(u) = <<>>)

\* C9: the tenth forward of a burst with every gap under 30 s flushes the
\* batch into a draft built from all ten records, and empties the batch.
C9_TenthForwardFlushes ==
    [][\A u \in Users :
          (/\ last'.op = "forward" /\ last'.user = u
           /\ Len(BatchOf(u)) = ForwardBatchCap - 1
           /\ ~IdleTimeoutElapsed(u))
          => (/\ last'.reply = "prompt"
              /\ last'.id = ForwardBatchCap
              /\ pending_forwarded_messages'[u].messages = <<>>
              /\ \E m \in TextMessages(msg_seq') :
                    user_data'[u] = StoreForwardedDraft(
                        user_data[u],
                        Append(BatchOf(u), extract_task_from_message(m))))]_vars

\* C9 happens: a tenth forward was handled and answered by the prompt
C9_Witness ==
    /\ last.op = "forward" /\ last.id = ForwardBatchCap /\ last.reply = "prompt"
    /\ BatchOf(last.user) = <<>>
    /\ user_data[last.user]["forwarded_message_id"] = msg_seq - (ForwardBatchCap - 1)

----------------------------------------------------------------------------
(* Properties of attachment collection, under SpecAttach *)

\* C6: consume on an active session with one attachment returns it unwrapped,
\* with N > 1 attachments a multiple wrapper of the N in arrival order; the
\* session is inactive and empty afterwards.
C6_ConsumeReturnsCollected ==
    (last.op = "add_collected" /\ last.pre # <<>>)
    => /\ Len(last.pre) = 1 => last.ret = last.pre[1]
       /\ Len(last.pre) > 1 => last.ret = [type |-> "multiple", items |-> last.pre]
       /\ ~pending_add_attachments[last.user].active
       /\ pending_add_attachments[last.user].attachments = <<>>

C6_Witness ==
    /\ last.op = "add_collected"
    /\ Len(last.pre) = 2
    /\ last.pre[1] # last.pre[2]
    /\ last.ret.type = "multiple"

\* the session map holds no attachment for the user
NoAttachments(sessions, u) ==
    u \notin DOMAIN sessions \/ sessions[u].attachments = <<>>

\* C7: consume with zero attachments returns null and leaves the session
\* inactive; a second consume returns null again and changes nothing.
C7_ConsumeEmptyIdempotent ==
    /\ (last.op = "add_collected" /\ last.pre = <<>>)
       => (last.ret = NoMedia /\ ~SessionActive(last.user))
    /\ \A u \in Users :
          NoAttachments(pending_add_attachments, u)
          => LET once == process_pending_attachments(pending_add_attachments, u)
             IN  /\ process_pending_attachments_ret(pending_add_attachments, u) = NoMedia
                 /\ ~IsActive(once, u)
                 /\ NoAttachments(once, u)
                 /\ process_pending_attachments_ret(once, u) = NoMedia
                 /\ process_pending_attachments(once, u) = once

C7_Witness ==
    /\ last.op = "add_collected" /\ last.pre = <<>>
    /\ last.user \in DOMAIN pending_add_attachments

\* C10: a media message of a media group, sent by a user with no active
\* session, goes to the buffer of its group, to be finalized as one multiple
\* media_info and one prompt; it is not acknowledged item by item.
C10_GroupItemBuffered ==
    (last.op = "media" /\ last.pre[1] # NoGroup /\ ~last.pre[2])
    => /\ last.pre[1] \in DOMAIN media_groups \cup DOMAIN bot_data
       /\ last.reply # "attachment added"

----------------------------------------------------------------------------
(* Properties of media groups, under FairMedia *)

\* the finalize of group G1 has run: its stash is in context.bot_data
Finalized == "G1" \in DOMAIN bot_data

\* C11: after the arrival of an item of a media group the finalize of the
\* group fires (a fixed settle delay after the first item; later items do
\* not postpone it).
C11_GroupFinalizeFires ==
    (last.op = "media" /\ last.pre[1] = "G1") ~> Finalized

----------------------------------------------------------------------------
(* Properties of the confirmation prompt, under SpecForward *)

\* the variables of the program, without the observation of the last handler
program_vars == <<now, msg_seq, store_vars, pc, session_vars, username_to_id>>

\* C12: a cancel creates no task, and a cancel that follows a cancel of the
\* same user leaves the state as the first cancel left it.
C12_CancelTwiceNoOp ==
    [][\A u \in Users :
          (last'.op = "cancel" /\ last'.user = u /\ last'.ok)
          => (/\ UNCHANGED store_vars
              /\ (last.op = "cancel" /\ last.user = u /\ last.ok)
                 => UNCHANGED program_vars)]_vars

\* C12 happens: a second cancel in a row was handled, tasks being held
C12_Witness ==
    /\ last.op = "cancel" /\ last.ok
    /\ last.pre = <<TRUE>>
    /\ get_user_tasks(last.user) # <<>>

\* the accept buttons and the user_data key whose presence each one tests
AcceptOps == {"add_forwarded_task", "add_text_task", "add_media_task",
              "add_task_with_attachments"}
DraftKey(op) ==
    IF op = "add_forwarded_task" THEN "forwarded_task_content"
    ELSE IF op = "add_text_task" THEN "text_task_content"
    ELSE IF op = "add_media_task" THEN "media_task_content"
    ELSE "attachment_task_text"

\* the user has no stored draft that the button op resolves
NoMatchingDraft(u, op) ==
    IF op = "cancel"
    THEN \A a \in AcceptOps : DraftKey(a) \notin DOMAIN user_data[u]
    ELSE DraftKey(op) \notin DOMAIN user_data[u]

\* C13: an accept or a cancel without a matching stored draft changes no
\* task, archive, attachment session or forward batch; an accept that
\* follows a successful accept of the same prompt creates no second task.
C13_NoDraftNoEffect ==
    [][\A u \in Users :
          /\ (/\ last'.user = u
              /\ last'.op \in AcceptOps \cup {"cancel"}
              /\ NoMatchingDraft(u, last'.op))
             => UNCHANGED <<store_vars, pending_add_attachments,
                            pending_forwarded_messages>>
          /\ (/\ last.user = u /\ last.op \in AcceptOps /\ last.reply = "added"
              /\ last'.user = u /\ last'.op = last.op)
             => UNCHANGED store_vars]_vars

\* C13 happens: an accept found no draft, the user holding the task that an
\* earlier accept committed from the forwarded draft
C13_Witness ==
    /\ last.op = "add_forwarded_task" /\ last.reply = "content not found"
    /\ \E i \in 1..Len(get_user_tasks(last.user)) :
          tasks[last.user][i].message_id # NoId

----------------------------------------------------------------------------
(* Properties of a task's life, under SpecLife and SpecStore *)

\* C14: for a user with no tasks, add(u, T) followed by get_user_tasks(u)
\* returns exactly one task, with text T, status pending and completed_at
\* null.
C14_AddThenGet ==
    [][\A u \in Users, T \in Texts :
          (/\ get_user_tasks(u) = <<>>
           /\ last'.op = "add" /\ last'.user = u /\ last'.pre = <<T>>)
          => LET got == Get(tasks', u, <<>>)
             IN  /\ Len(got) = 1
                 /\ got[1].text = T
                 /\ got[1].status = "pending"
                 /\ got[1].completed_at = NoTime]_vars

\* C14 happens: an add of the text "b" gave the user their only task
C14_Witness ==
    /\ last.op = "add" /\ last.pre = <<"b">>
    /\ Len(get_user_tasks(last.user)) = 1
    /\ tasks[last.user][1].id = last.id

\* every task of the two collections of a store
AllTasks(live, archive) ==
    UNION {Range(Get(live, u, <<>>)) \cup Range(Get(archive, u, <<>>)) : u \in Users}

\* C15: in every reachable state, for every task of a live or archived set,
\* in memory and in the files, completed_at is non-null if and only if
\* status is completed.
C15_CompletedAtIffCompleted ==
    \A t \in AllTasks(tasks, archived_tasks) \cup AllTasks(tasks_file, archived_file) :
        (t.completed_at # NoTime) <=> (t.status = "completed")

\* C15 happens: a pending task is held next to an archived one that was
\* completed
C15_Witness ==
    /\ \E t \in AllTasks(tasks, <<>>) : t.status = "pending"
    /\ \E t \in AllTasks(<<>>, archived_tasks) : t.completed_at # NoTime

\* a step keeps the completed tasks of a list completed: a list that did
\* not shrink has them at their places, a list that shrank (delete, archive)
\* holds only tasks it held before, as they were
StaysCompleted(before, after) ==
    IF Len(after) >= Len(before)
    THEN \A i \in 1..Len(before) :
            before[i].status = "completed" => after[i].status = "completed"
    ELSE Range(after) \subseteq Range(before)

\* C16: the status of a task only moves from pending to completed: no step
\* (complete again, edit, archive, restart) makes a completed task of the
\* live or the archived list pending again.
C16_NoUncomplete ==
    [][\A u \in Users :
          /\ StaysCompleted(Get(tasks, u, <<>>), Get(tasks', u, <<>>))
          /\ StaysCompleted(Get(archived_tasks, u, <<>>), Get(archived_tasks', u, <<>>))
          /\ (pc # <<>> /\ pc[1] = u /\ pc' = <<>> /\ last'.op = "archive")
             => archived_tasks'[u][Len(archived_tasks'[u])].status = pc[2].status]_vars

\* C16 happens: a completed task was edited, and is still completed
C16_Witness ==
    /\ last.op = "edit_text" /\ last.ok
    /\ \E i \in 1..Len(get_user_tasks(last.user)) :
          /\ tasks[last.user][i].id = last.id
          /\ tasks[last.user][i].status = "completed"
          /\ tasks[last.user][i].previous_text # NoStr

\* C17: complete, delete and archive called with a task id that the user's
\* live list does not hold report failure and leave both collections, in
\* memory and in the files, unchanged (the claim says the same of
\* permanently_delete_archived and the archived list).
C17_MissingIdFails ==
    [][\A u \in Users :
          (/\ pc = <<>>
           /\ last'.op \in {"complete", "delete", "archive", "archive_removed"}
           /\ last'.user = u
           /\ last'.id \notin Live(tasks, u))
          => (~last'.ok /\ UNCHANGED store_vars)]_vars

\* the text of the draft that the prompt raised by the last handler holds
LatestDraftText(u) ==
    IF last.op = "text" THEN user_data[u]["text_task_content"]
    ELSE user_data[u]["forwarded_task_content"]

\* C18: the prompt is one slot per user: a task committed by an accept
\* that follows the raising of a prompt is built from the draft of that
\* prompt, not from a draft raised earlier, whichever button is pressed.
C18_AcceptCommitsLatestDraft ==
    [][\A u \in Users :
          (/\ last.user = u /\ last.op \in {"text", "forward"} /\ last.reply = "prompt"
           /\ last'.user = u /\ last'.op \in AcceptOps
           /\ Len(Get(tasks', u, <<>>)) > Len(Get(tasks, u, <<>>)))
          => LET task == tasks'[u][Len(tasks'[u])]
             IN  /\ task.text = LatestDraftText(u)
                 /\ last.op = "text"
                    => /\ task.message_link = NoStr
                       /\ task.message_id = NoId
                       /\ task.media_info = NoMedia]_vars

----------------------------------------------------------------------------
(* Properties of the triage of media messages, under SpecAttach *)

\* C19: a forwarded message that carries an attachment goes to the user's
\* forward batch and is not appended to the user's attachment session.
C19_ForwardedMediaToBatch ==
    (last.op = "media" /\ last.pre[3])
    => /\ BatchOf(last.user) # <<>>
       /\ BatchOf(last.user)[Len(BatchOf(last.user))].message_id = msg_seq
       /\ last.reply # "attachment added"

\* C20: a media message that is not forwarded, of no media group, from a
\* user with no active attachment session raises a prompt built from its
\* record and is not collected into a session.
C20_LoneMediaRaisesPrompt ==
    (last.op = "media" /\ ~last.pre[3] /\ last.pre[1] = NoGroup /\ ~last.pre[2])
    => /\ "media_task_content" \in DOMAIN user_data[last.user]
       /\ ~SessionActive(last.user)
       /\ last.reply # "attachment added"

----------------------------------------------------------------------------
(* Properties of the attachment session, under SpecAttach and SpecExpiry *)

\* C21: in every reachable state a session that is not active holds no
\* attachments: a media message that arrives while the user's record exists
\* but is not active is not appended to it.
C21_InactiveSessionEmpty ==
    \A u \in DOMAIN pending_add_attachments :
        ~pending_add_attachments[u].active
        => pending_add_attachments[u].attachments = <<>>

\* C22: add with no text (and not in reply to media) leaves the user with
\* the session {active: true, attachments: [], start_time: now}, also when
\* an active session holding attachments existed before.
C22_StartOverwritesSession ==
    (last.op \in {"add_start", "add_status"})
    => pending_add_attachments[last.user] = NewSession

\* C22, amended: add with no text leaves the user with the session
\* {active: true, attachments: [], start_time: now} when the user had no
\* active session (none, or a record that is not active, which is
\* overwritten); an active session is left as it is and reported.
C22_StartUnlessCollecting ==
    [][\A u \in Users :
          (last'.op \in {"add_start", "add_status"} /\ last'.user = u)
          => IF SessionActive(u)
             THEN /\ last'.op = "add_status"
                  /\ UNCHANGED pending_add_attachments
             ELSE /\ last'.op = "add_start"
                  /\ pending_add_attachments'[u] =
                        [active |-> TRUE, attachments |-> <<>>, start_time |-> now]]_vars

\* C22 happens: a session that was consumed at an earlier time was started
\* again
C22_Witness ==
    /\ last.op = "add_start"
    /\ get_user_tasks(last.user) # <<>>
    /\ tasks[last.user][1].media_info # NoMedia
    /\ pending_add_attachments[last.user].start_time > tasks[last.user][1].created_at

\* the session was last touched more than 30 minutes ago
Stale(session) == now - session.start_time > AttachmentExpirySeconds * 1000

\* C23: the expiry sweep deactivates and empties exactly the active
\* sessions last touched more than 30 minutes ago and changes no task,
\* forward batch or draft; every append sets the last-touched time, so a
\* session appended to within the last 30 minutes is not expired.
C23_SweepExpiresStaleOnly ==
    [][/\ last'.op = "cleanup_pending_attachments"
          => /\ DOMAIN pending_add_attachments' = DOMAIN pending_add_attachments
             /\ \A u \in DOMAIN pending_add_attachments :
                   IF pending_add_attachments[u].active /\ Stale(pending_add_attachments[u])
                   THEN /\ ~pending_add_attachments'[u].active
                        /\ pending_add_attachments'[u].attachments = <<>>
                   ELSE pending_add_attachments'[u] = pending_add_attachments[u]
             /\ UNCHANGED <<store_vars, pending_forwarded_messages, user_data>>
       /\ last'.op = "media"
          => pending_add_attachments'[last'.user].start_time = now]_vars

\* C23 happens: the sweep has expired one session and kept another, active
\* and with its attachment, that was touched 30 minutes ago to the second
C23_Witness ==
    /\ last.op = "cleanup_pending_attachments"
    /\ \E u, v \in DOMAIN pending_add_attachments :
          /\ ~pending_add_attachments[u].active
          /\ now - pending_add_attachments[u].start_time > AttachmentExpirySeconds * 1000
          /\ get_user_tasks(u) = <<>>
          /\ pending_add_attachments[v].active
          /\ pending_add_attachments[v].attachments # <<>>
          /\ now - pending_add_attachments[v].start_time = AttachmentExpirySeconds * 1000

----------------------------------------------------------------------------
(* Properties of the edit of a task, under SpecEdit *)

\* C24: a text X from a user with edit target N: when N is in the live
\* list, the text of task N becomes X and its prior text is kept, nothing
\* else of task N and no other task changes, the target is cleared, and no
\* prompt is raised and no forward batch written; when N is not in the list,
\* no task changes and the target is cleared all the same.
C24_EditChangesOnlyText ==
    [][\A u \in Users :
          (/\ "editing_task_id" \in DOMAIN user_data[u]
           /\ msg_seq' = msg_seq + 1 /\ last'.user = u)
          => LET N == user_data[u]["editing_task_id"]
                 X == last'.pre[1]
                 i == FirstWithId(get_user_tasks(u), N)
             IN  /\ last'.op = "edit_text"
                 /\ IF N \in Live(tasks, u)
                    THEN tasks' = [tasks EXCEPT ![u][i] =
                                      [tasks[u][i] EXCEPT !.text = X,
                                                          !.previous_text = tasks[u][i].text]]
                    ELSE tasks' = tasks
                 /\ tasks_file' = tasks'
                 /\ user_data' = [user_data EXCEPT ![u] = Drop(@, {"editing_task_id"})]
                 /\ UNCHANGED <<archived_tasks, archived_file, pending_add_attachments,
                                pending_forwarded_messages>>]_vars

\* C24 happens: the second of two tasks was edited, the first one being as
\* it was added, and no forward batch was written
C24_Witness ==
    /\ last.op = "edit_text" /\ last.ok
    /\ Len(get_user_tasks(last.user)) = 2
    /\ tasks[last.user][2].id = last.id
    /\ tasks[last.user][2].text = "b"
    /\ tasks[last.user][2].previous_text = "a"
    /\ tasks[last.user][1].previous_text = NoStr
    /\ pending_forwarded_messages = <<>>

----------------------------------------------------------------------------
(* Properties of persistence, under SpecLife *)

\* C25: after every mutating operation has returned (add, complete, delete,
\* archive, the edit of a text), the persisted tasks and archived_tasks
\* equal the collections in memory.
C25_PersistedEqualsMemory ==
    pc = <<>> => (tasks_file = tasks /\ archived_file = archived_tasks)

\* C25 happens: a task that was edited and completed has been archived, and
\* the archive file holds it
C25_Witness ==
    /\ last.op = "archive" /\ last.ok /\ pc = <<>>
    /\ \E t \in Range(Get(archived_file, last.user, <<>>)) :
          t.id = last.id /\ t.previous_text # NoStr /\ t.archived_at # NoTime

----------------------------------------------------------------------------
(* Properties of the flush of a forward batch, under SpecForward *)

\* the records the last handler flushed, and the draft it left
Flushed == last.op = "forward" /\ last.reply = "prompt"
FlushedRecords == last.pre
FlushedDraft == user_data[last.user]

\* the separator-joined non-empty contents of records, in their order
RECURSIVE JoinedContent(_)
JoinedContent(records) ==
    IF records = <<>> THEN ""
    ELSE LET rest == JoinedContent(Tail(records))
             head == records[1].content
         IN  IF head = "" THEN rest
             ELSE IF rest = "" THEN head
             ELSE head \o "\n---\n" \o rest

\* the media descriptors of records, in their order
RECURSIVE MediaOf(_)
MediaOf(records) ==
    IF records = <<>> THEN <<>>
    ELSE (IF records[1].media_info = NoMedia THEN <<>> ELSE <<records[1].media_info>>)
         \o MediaOf(Tail(records))

\* C26: the draft of a flush has as text the non-empty contents of the
\* batch's records joined by the separator in arrival order, as message_id
\* that of the first record, and as media_info a multiple wrapper of all
\* the records' media, or none when no record carried media.
C26_FlushBuildsDraft ==
    Flushed
    => /\ FlushedDraft["forwarded_task_content"] = JoinedContent(FlushedRecords)
       /\ FlushedDraft["forwarded_message_id"] = FlushedRecords[1].message_id
       /\ IF MediaOf(FlushedRecords) = <<>>
          THEN "forwarded_media_info" \notin DOMAIN FlushedDraft
          ELSE FlushedDraft["forwarded_media_info"]
                  = [type |-> "multiple", items |-> MediaOf(FlushedRecords)]

\* C26 happens: three records with different contents were flushed
C26_Witness ==
    /\ Flushed
    /\ Len(FlushedRecords) = 3
    /\ FlushedRecords[1].content # FlushedRecords[2].content
    /\ FlushedRecords[1].message_id + 2 = FlushedRecords[3].message_id

\* the records that carry a permalink
WithLink(records) == SelectSeq(records, LAMBDA r : r.link # NoStr)

\* C27: the draft of a flush keeps the first non-null link of the batch's
\* records as its link (and a task committed from it has that link as its
\* message_link).
C27_FlushKeepsFirstLink ==
    (Flushed /\ WithLink(FlushedRecords) # <<>>)
    => /\ "forwarded_task_link" \in DOMAIN FlushedDraft
       /\ FlushedDraft["forwarded_task_link"] = WithLink(FlushedRecords)[1].link

----------------------------------------------------------------------------
(* Properties of the return to Idle, under SpecForward *)

\* the keys of context.user_data that hold a draft, an edit target or the
\* wait for the description of a media group
PendingKeys ==
    ForwardedKeys \cup MediaTaskKeys \cup AttachmentTaskKeys
    \cup {"text_task_content", "regular_task_content", "editing_task_id",
          "expecting_task_text", "media_group_waiting", "pending_media_group"}

\* C29: after a cancel the user is back in Idle: no stored draft of any kind,
\* no edit target and no wait for a media-group description remains.
C29_CancelReturnsToIdle ==
    (last.op = "cancel" /\ last.ok)
    => DOMAIN user_data[last.user] \cap PendingKeys = {}

----------------------------------------------------------------------------
(* Properties of the finalize of a media group, under FairMedia *)

\* the stash of group G1 holds one multiple media_info of the group's items
StashedMultiple ==
    /\ Finalized
    /\ bot_data["G1"].media_info.type = "multiple"

\* C30: the items of a media group whose owner has an active session are
\* appended to that session in order, its last-touched time is refreshed and
\* no stash is made; the items of any other media group end in one stash of
\* a multiple media_info under the group id.
C30_FinalizeMergesOrStashes ==
    /\ []((last.op = "media" /\ last.pre[1] = "G1" /\ last.pre[2])
          => /\ Len(pending_add_attachments[last.user].attachments) = last.id
             /\ pending_add_attachments[last.user].start_time = now
             /\ ~Finalized)
    /\ ((last.op = "media" /\ last.pre[1] = "G1" /\ ~last.pre[2])
          ~> StashedMultiple)

----------------------------------------------------------------------------
(* Properties of the edit of a message, under SpecTransport *)

\* C32: a press whose edit of the message is reported as unchanged by the
\* transport finishes without raising, and its state change is applied (a
\* cancel leaves none of the drafts it clears).
C32_UnchangedAbsorbed ==
    [][\A data \in TransportButtons :
          button_callback(Actor, data, MissingId, FALSE)
          => /\ last'.ok
             /\ data = "cancel" => DOMAIN user_data'[Actor] \cap CancelKeys = {}]_vars

----------------------------------------------------------------------------
(* Properties of the commit of a session, under SpecAttach *)

\* the media_info of a task made of the attachments a1..an
MediaInfoOf(attachments) ==
    IF attachments = <<>> THEN NoMedia
    ELSE IF Len(attachments) = 1 THEN attachments[1]
    ELSE [type |-> "multiple", items |-> attachments]

\* C33: /add with a text T, not a reply, by a user whose session is active
\* with the attachments a1..an, appends exactly one task with text T to the
\* user's list, with media_info null for n = 0, a1 for n = 1 and a multiple
\* wrapper of a1..an for n > 1, and leaves the session inactive and empty.
C33_CommitWithText ==
    [][\A T \in Texts :
          (SessionActive(Actor) /\ add_task_command(Actor, T, NoMessage))
          => LET before == get_user_tasks(Actor)
                 after == tasks'[Actor]
                 task == after[Len(after)]
             IN  /\ Len(after) = Len(before) + 1
                 /\ SubSeq(after, 1, Len(before)) = before
                 /\ \A u \in DOMAIN tasks' \ {Actor} :
                       u \in DOMAIN tasks /\ tasks'[u] = tasks[u]
                 /\ task.text = T
                 /\ task.media_info = MediaInfoOf(pending_add_attachments[Actor].attachments)
                 /\ ~pending_add_attachments'[Actor].active
                 /\ pending_add_attachments'[Actor].attachments = <<>>]_vars

\* a commit with a text of a session that held exactly one attachment: the
\* new task carries it unwrapped and the session is inactive and empty
C33_Witness ==
    /\ last.op = "add_collected" /\ Len(last.pre) = 1
    /\ LET list == tasks[last.user]
       IN  /\ list[Len(list)].id = last.id
           /\ list[Len(list)].media_info = last.pre[1]
    /\ ~SessionActive(last.user)
    /\ pending_add_attachments[last.user].attachments = <<>>

----------------------------------------------------------------------------
(* Properties of the accept next to a session, under SpecAccept *)

\* C34: the accept of a forward-batch prompt leaves the user's session of
\* pending attachments, its active flag and its attachments, as it was.
C34_AcceptKeepsSession ==
    [][(/\ "forwarded_task_content" \in DOMAIN user_data[Actor]
        /\ button_callback(Actor, "add_forwarded_task", MissingId, TRUE))
       => pending_add_attachments' = pending_add_attachments]_vars

----------------------------------------------------------------------------
(* Properties of the stored media_info, under SpecAttach *)

\* a descriptor of one attachment
IsSingle(media_info) == media_info.type \in {"photo", "document"}

\* null, one attachment, or a multiple wrapper of single attachments
FlatMedia(media_info) ==
    \/ media_info = NoMedia
    \/ IsSingle(media_info)
    \/ /\ media_info.type = "multiple"
       /\ \A i \in 1..Len(media_info.items) : IsSingle(media_info.items[i])

\* C35: the media_info of every stored task is null, one attachment
\* descriptor, or a multiple wrapper whose items are all single descriptors;
\* no multiple wrapper holds another one.
C35_NoNestedMultiple ==
    \A u \in Users :
       \A t \in Range(Get(tasks, u, <<>>)) \cup Range(Get(archived_tasks, u, <<>>)) :
          FlatMedia(t.media_info)

----------------------------------------------------------------------------
(* Properties of the size and the clock of a batch, under SpecBurst *)

\* C36: once a forward is handled the user's batch holds at most nine
\* records, and its last-activity time is the arrival time of the forward
\* handled last: a forward sets it to the time of its arrival and no other
\* step changes it.
C36_BatchBoundedAndStamped ==
    /\ [](\A u \in DOMAIN pending_forwarded_messages :
            Len(pending_forwarded_messages[u].messages) <= ForwardBatchCap - 1)
    /\ [][IF last'.op = "forward"
          THEN pending_forwarded_messages'[last'.user].last_time = now
          ELSE \A u \in DOMAIN pending_forwarded_messages :
                  /\ u \in DOMAIN pending_forwarded_messages'
                  /\ pending_forwarded_messages'[u].last_time =
                        pending_forwarded_messages[u].last_time]_vars

\* a batch of nine records, the ninth handled later than the first
C36_Witness ==
    /\ last.op = "forward" /\ last.reply = "added to batch"
    /\ Len(BatchOf(last.user)) = ForwardBatchCap - 1
    /\ pending_forwarded_messages[last.user].last_time = now
    /\ now > 0

----------------------------------------------------------------------------
(* Properties of two users side by side, under SpecSideBySide *)

\* what the program holds for user v: tasks, archive, session, batch, drafts
Holdings(v, live, archive, sessions, batches, drafts) ==
    <<Get(live, v, <<>>), Get(archive, v, <<>>),
      v \in DOMAIN sessions, Get(sessions, v, <<>>),
      v \in DOMAIN batches, Get(batches, v, <<>>), drafts[v]>>

\* the same without the live tasks
SideHoldings(v, archive, sessions, batches, drafts) ==
    Holdings(v, EmptyDict, archive, sessions, batches, drafts)

----------------------------------------------------------------------------
(* Properties of the commit of forwarded records, under SpecSendFail *)

\* the contents of the forwards numbered in S, in order, joined as a flush
\* and /save join them
RECURSIVE ContentOf(_)
ContentOf(S) ==
    IF S = {} THEN <<>>
    ELSE LET k == CHOOSE x \in S : \A y \in S : x <= y
         IN  <<extract_task_from_message(ForwardNo(k)).content>> \o ContentOf(S \ {k})

\* forward number k is part of the task: the task's text is the joined
\* contents of some of the forwards handled so far, k among them
Contributes(k, task) ==
    \E S \in SUBSET (1..msg_seq) :
       k \in S /\ task.text = Join(ContentOf(S), Separator)

\* C38: each forwarded record is part of at most one committed task, also
\* when the send of a prompt fails during a flush.
C38_RecordInOneTask ==
    LET list == Get(tasks, Actor, <<>>)
    IN  \A k \in 1..msg_seq :
           \A i, j \in 1..Len(list) :
              (Contributes(k, list[i]) /\ Contributes(k, list[j])) => i = j

----------------------------------------------------------------------------
(* Properties of the archive, under SpecStore *)

\* C39: every record of a user's archive has the status completed, a
\* completed_at and an archived_at that are set, and no task of the user's
\* live list has its id.
C39_ArchivedAreCompleted ==
    \A u \in DOMAIN archived_tasks :
       \A i \in 1..Len(archived_tasks[u]) :
          LET t == archived_tasks[u][i]
          IN  /\ t.status = "completed"
              /\ t.completed_at # NoTime
              /\ t.archived_at # NoTime
              /\ t.id \notin Live(tasks, u)

----------------------------------------------------------------------------
(* The button of the archived-task view, under SpecArchiveView *)

\* C40: a press of the button perm_delete_N does not raise out of
\* button_callback; when the user's archive holds a task with the id N the
\* press removes the tasks with that id, and no other, from the archive in
\* memory and in archived_tasks.json and reports the deletion; when the
\* archive holds no such task the press reports not-found and leaves the
\* archive and its file as they were.
C40_PermDeleteRemoves ==
    [][\A u \in Users :
          (last'.op = "perm_delete_" /\ last'.user = u)
          => /\ last'.reply # "raised"
             /\ archived_tasks' = permanently_delete_archived_task(u, last'.id)
             /\ archived_file' = archived_tasks'
             /\ last'.ok = permanently_delete_archived_task_found(u, last'.id)]_vars

====
